---- MODULE Spec2Model ----
(***************************************************************************)
(* Model of the todo store of src/src/todo.rs: a Vec<TodoItem> behind one   *)
(* tokio Mutex, shared by concurrently running tool handlers (list_todos,   *)
(* create_todo, update_todo, delete_todo, get_todo, complete_todo).         *)
(*                                                                         *)
(* Every handler is a small sequential program.  A caller p runs one        *)
(* handler at a time; pc[p] is its position in the handler.  The steps of   *)
(* a handler are the points at which another thread of the runtime can be   *)
(* scheduled: before `lock().await`, and between the statements executed    *)
(* while the guard is held.  The guard is dropped when the handler returns. *)
(*                                                                         *)
(* Environment: Utc::now() reads `clock`, the wall clock of the machine.    *)
(* It advances (Tick), may stand still between two reads, and can be set    *)
(* back (SetBack), also to an instant before the Unix epoch (a negative     *)
(* value), where Utc::now() panics: the handler unwinds, its guard is       *)
(* dropped and no Result is returned.  `setBacks` counts the times the      *)
(* clock has been set back so far.  Uuid::new_v4() is modelled as the draw  *)
(* of an identifier that was never drawn before (nextId).                   *)
(* serde_json::to_string_pretty cannot fail on a TodoItem (strings, an      *)
(* option, a bool and two timestamps): SerdeFails is FALSE, and the         *)
(* map_err branch of Reply is not taken.                                    *)
(***************************************************************************)
EXTENDS Naturals, Integers, Sequences, FiniteSets, TLC

\* ---- bounds of the model ------------------------------------------------
NumProcs    == 2   \* concurrent callers
MaxCreates  == 3   \* identifiers Uuid::new_v4() can hand out
MaxClock    == 1   \* the clock runs up to MaxClock
MaxSetBacks == 1   \* times the wall clock is set back
MaxCalls    == 3   \* calls made under Spec
MaxSeqCalls == 5   \* calls made under SpecSeq
MaxFairCalls == 2  \* calls made under SpecFair

Procs        == 1..NumProcs
Ids          == 1..MaxCreates
CreateTitles == {"a"}
CreateDescs  == {"d"}
UpdateTitles == {"b"}
UpdateDescs  == {"e"}
UpdateFlags  == BOOLEAN

\* Option<T>: None is the empty sequence, Some(x) the one-element sequence.
None      == <<>>
Some(x)   == <<x>>
IsSome(o) == Len(o) = 1
Unwrap(o) == o[1]
OptOf(S)  == {None} \cup {Some(x) : x \in S}

VARIABLES
    todos,      \* the Vec<TodoItem> inside the Mutex
    lock,       \* 0: the mutex is free; p: caller p holds the guard
    clock,      \* the wall clock: the value Utc::now() reads
    setBacks,   \* history: the times the clock has been set back so far
    nextId,     \* the next identifier Uuid::new_v4() hands out
    budget,     \* the number of calls the callers may still make
    pc,         \* pc[p]: position of caller p in its handler
    req,        \* req[p]: the request caller p is serving
    item,       \* item[p]: create_todo's local `todo`
    idx,        \* idx[p]: the element `find`/`position` returned (0: None)
    acc,        \* acc[p]: the elements list_todos has serialized so far
    res,        \* res[p]: the Result the handler returned
    snap,       \* history: the collection when p acquired the lock
    readAt,     \* history: the clock as the handler of p read it
    post,       \* history: the collection when p released the lock
    gone,       \* history: req[p].id had been deleted when p was invoked
    known,      \* history: the ids create_todo had returned when p was
                \* invoked (for get_todo, req[p].id if it was among them)
    deleted,    \* history: ids whose delete_todo succeeded
    nCreated,   \* history: create_todo calls that returned
    nDeleted,   \* history: delete_todo calls that removed a record
    createdIds, \* history: the ids of the records create_todo returned
    pushed,     \* history: the ids pushed to the collection, in push order
    untouched   \* history: the records create_todo returned to which no
                \* update, complete or delete has been applied since

time    == <<clock, setBacks>>
locals  == <<item, idx, acc>>
perCall == <<snap, readAt, post, gone, known>>
history == <<deleted, nCreated, nDeleted, createdIds, pushed, untouched>>

vars == <<todos, lock, time, nextId, budget, pc, req, res,
          locals, perCall, history>>

\* ---- data ---------------------------------------------------------------

NoItem == [id |-> 0, title |-> "", description |-> None, completed |-> FALSE,
           created_at |-> 0, updated_at |-> 0]

NoReq == [name |-> "none"]
NoRes == [tag |-> "none"]

\* A struct literal that stores an empty string for a missing description.
NewTodoItemEmptyDesc(id, title, description, now) ==
    [id |-> id, title |-> title,
     description |-> IF description = None THEN Some("") ELSE description,
     completed |-> FALSE, created_at |-> now, updated_at |-> now]

\* A struct literal whose id does not come from Uuid::new_v4().
NewTodoItemSameId(id, title, description, now) ==
    [id |-> 1, title |-> title, description |-> description,
     completed |-> FALSE, created_at |-> now, updated_at |-> now]

\* The struct literal of create_todo.
NewTodoItem(id, title, description, now) ==
    [id |-> id, title |-> title, description |-> description,
     completed |-> FALSE, created_at |-> now, updated_at |-> now]

\* serde_json::to_string_pretty(&TodoItem): the object's members in the
\* order of the struct's fields.
ToJson(t) ==
    << <<"id", t.id>>, <<"title", t.title>>, <<"description", t.description>>,
       <<"completed", t.completed>>, <<"created_at", t.created_at>>,
       <<"updated_at", t.updated_at>> >>

\* The "id" member of a serialized TodoItem.
JsonId(j) == j[1][2]

\* The member of a serialized TodoItem whose key is k.
JsonGet(j, k) == (CHOOSE m \in {j[i] : i \in DOMAIN j} : m[1] = k)[2]

\* The records of untouched other than the one whose id is id.
Touch(id) == {j \in untouched : JsonId(j) # id}

\* CallToolResult::success(vec![Content::text(..)])
Success(content) == [tag |-> "Ok", content |-> content]

\* serde_json::to_string_pretty(&v) is Err: for no TodoItem and no Vec of
\* them.
SerdeFails(v) == FALSE

\* McpError::internal_error("Serialization failed",
\*                          Some(json!({"error": e.to_string()})))
InternalError ==
    [tag |-> "InternalError",
     message |-> "Serialization failed",
     data |-> <<"error", "e">>]

\* to_string_pretty(&v).map_err(..)? followed by
\* Ok(CallToolResult::success(vec![Content::text(json)]))
Reply(v) == IF SerdeFails(v) THEN InternalError ELSE Success(v)

\* Utc::now() panics ("system time before Unix epoch") when the wall clock
\* reads t.
BeforeEpoch(t) == t < 0

\* The outcome of a handler that panicked: it returned no Result.
Panicked == [tag |-> "Panic", message |-> "system time before Unix epoch"]

\* An error whose context is not the id that was asked for.
NotFoundNoId(id) ==
    [tag |-> "InvalidParams",
     message |-> "Todo item with specified ID not found",
     data |-> <<"id", 0>>]

\* McpError::invalid_params("Todo item with specified ID not found",
\*                          Some(json!({"id": id})))
NotFound(id) ==
    [tag |-> "InvalidParams",
     message |-> "Todo item with specified ID not found",
     data |-> <<"id", id>>]

\* format!("Successfully deleted todo item with ID {}", id)
DeletedMsg(id) == <<"Successfully deleted todo item with ID ", id>>

\* todos.iter().position(|t| t.id == id): index of the first match, 0 for None.
Position(s, id) ==
    IF \E i \in 1..Len(s) : s[i].id = id
    THEN CHOOSE i \in 1..Len(s) :
            /\ s[i].id = id
            /\ \A j \in 1..(i - 1) : s[j].id # id
    ELSE 0

\* Vec::insert(0, x): the new element goes to the front.
PushFront(s, x) == <<x>> \o s

\* Vec::push(x)
Push(s, x) == Append(s, x)

\* Vec::remove of the element after idx.
RemoveNext(s, i) == SubSeq(s, 1, i) \o SubSeq(s, i + 2, Len(s))

\* Vec::remove(idx)
RemoveAt(s, i) == SubSeq(s, 1, i - 1) \o SubSeq(s, i + 1, Len(s))

\* Lines 100-108 of update_todo: the fields written before Utc::now() is
\* called at line 109.
WriteFields(t, r) ==
    [t EXCEPT !.title       = IF IsSome(r.title) THEN Unwrap(r.title) ELSE @,
              !.description = IF IsSome(r.description)
                              THEN Some(Unwrap(r.description)) ELSE @,
              !.completed   = IF IsSome(r.completed) THEN Unwrap(r.completed) ELSE @]

\* Line 186 of complete_todo: the field written before Utc::now() is called
\* at line 187.
WriteCompleted(t) == [t EXCEPT !.completed = TRUE]

\* todo.description = req.description: an absent description clears it.
ApplyUpdateClearDesc(t, r, now) ==
    [t EXCEPT !.title       = IF IsSome(r.title) THEN Unwrap(r.title) ELSE @,
              !.description = r.description,
              !.completed   = IF IsSome(r.completed) THEN Unwrap(r.completed) ELSE @,
              !.updated_at  = now]

\* todo.title = req.title.unwrap_or_default(): an absent title empties it.
ApplyUpdateDefaultTitle(t, r, now) ==
    [t EXCEPT !.title       = IF IsSome(r.title) THEN Unwrap(r.title) ELSE "",
              !.description = IF IsSome(r.description)
                              THEN Some(Unwrap(r.description)) ELSE @,
              !.completed   = IF IsSome(r.completed) THEN Unwrap(r.completed) ELSE @,
              !.updated_at  = now]

\* The Some(todo) arm of update_todo, lines 100-109.
ApplyUpdate(t, r, now) ==
    [t EXCEPT !.title       = IF IsSome(r.title) THEN Unwrap(r.title) ELSE @,
              !.description = IF IsSome(r.description)
                              THEN Some(Unwrap(r.description)) ELSE @,
              !.completed   = IF IsSome(r.completed) THEN Unwrap(r.completed) ELSE @,
              !.updated_at  = now]

\* todo.completed = !todo.completed: completing twice undoes it.
ApplyCompleteToggle(t, now) ==
    [t EXCEPT !.completed = ~@, !.updated_at = now]

\* The Some(todo) arm of complete_todo, lines 186-187.
ApplyComplete(t, now) ==
    [t EXCEPT !.completed = TRUE, !.updated_at = now]

\* ---- the mutex -----------------------------------------------------------

\* A lock that is handed out while a guard is alive.
CanLockAlways(p) == TRUE

\* Mutex::lock() completes only when no guard is alive.
CanLock(p) == lock = 0

\* self.todos.lock().await at label `from`; the handler goes on at `to`.
Acquire(p, from, to) ==
    /\ pc[p] = from
    /\ CanLock(p)
    /\ lock' = p
    /\ pc' = [pc EXCEPT ![p] = to]
    /\ snap' = [snap EXCEPT ![p] = todos]
    /\ UNCHANGED <<todos, time, nextId, budget, req, res, locals, readAt, post,
                   gone, known, history>>

\* A handler that unlocks on its success path only.
ReturnKeepLockOnError(p, r, t) ==
    /\ todos' = t
    /\ res' = [res EXCEPT ![p] = r]
    /\ lock' = IF lock = p /\ r.tag = "Ok" THEN 0 ELSE lock
    /\ pc' = [pc EXCEPT ![p] = "done"]
    /\ post' = [post EXCEPT ![p] = t]
    /\ UNCHANGED <<time, nextId, budget, req, locals, snap, readAt, gone,
                   known>>

\* The handler returns r and leaves the collection as t: the guard goes out
\* of scope and the mutex is free.
Return(p, r, t) ==
    /\ todos' = t
    /\ res' = [res EXCEPT ![p] = r]
    /\ lock' = IF lock = p THEN 0 ELSE lock
    /\ pc' = [pc EXCEPT ![p] = "done"]
    /\ post' = [post EXCEPT ![p] = t]
    /\ UNCHANGED <<time, nextId, budget, req, locals, snap, readAt, gone,
                   known>>

\* ---- Init ----------------------------------------------------------------

Start(b) ==
    /\ todos = <<>>
    /\ lock = 0
    /\ clock = 0
    /\ setBacks = 0
    /\ nextId = 1
    /\ budget = b
    /\ pc = [p \in Procs |-> "idle"]
    /\ req = [p \in Procs |-> NoReq]
    /\ item = [p \in Procs |-> NoItem]
    /\ idx = [p \in Procs |-> 0]
    /\ acc = [p \in Procs |-> <<>>]
    /\ res = [p \in Procs |-> NoRes]
    /\ snap = [p \in Procs |-> <<>>]
    /\ readAt = [p \in Procs |-> 0]
    /\ post = [p \in Procs |-> <<>>]
    /\ gone = [p \in Procs |-> FALSE]
    /\ known = [p \in Procs |-> {}]
    /\ deleted = {}
    /\ nCreated = 0
    /\ nDeleted = 0
    /\ createdIds = {}
    /\ pushed = <<>>
    /\ untouched = {}

\* TodoList::new(): an empty collection, a free mutex.
Init == Start(MaxCalls)

\* ---- the environment -----------------------------------------------------

\* Time passes.
Tick ==
    /\ clock < MaxClock
    /\ clock' = clock + 1
    /\ UNCHANGED <<todos, lock, setBacks, nextId, budget, pc, req, res,
                   locals, perCall, history>>

\* The wall clock is set back (settimeofday, a step of the time daemon), to
\* an earlier instant or to one before the Unix epoch.
SetBack ==
    /\ setBacks < MaxSetBacks
    /\ \E c \in -1..(clock - 1) : clock' = c
    /\ setBacks' = setBacks + 1
    /\ UNCHANGED <<todos, lock, nextId, budget, pc, req, res, locals, perCall,
                   history>>

\* The caller has read the result of its call and is ready for the next one.
Ack(p) ==
    /\ pc[p] = "done"
    /\ pc' = [pc EXCEPT ![p] = "idle"]
    /\ req' = [req EXCEPT ![p] = NoReq]
    /\ res' = [res EXCEPT ![p] = NoRes]
    /\ item' = [item EXCEPT ![p] = NoItem]
    /\ idx' = [idx EXCEPT ![p] = 0]
    /\ acc' = [acc EXCEPT ![p] = <<>>]
    /\ snap' = [snap EXCEPT ![p] = <<>>]
    /\ readAt' = [readAt EXCEPT ![p] = 0]
    /\ post' = [post EXCEPT ![p] = <<>>]
    /\ gone' = [gone EXCEPT ![p] = FALSE]
    /\ known' = [known EXCEPT ![p] = {}]
    /\ UNCHANGED <<todos, lock, time, nextId, budget, history>>

\* A request r arrives: the handler is at its lock().await.
Invoke(p, r, at) ==
    /\ pc[p] = "idle"
    /\ budget > 0
    /\ budget' = budget - 1
    /\ req' = [req EXCEPT ![p] = r]
    /\ pc' = [pc EXCEPT ![p] = at]
    /\ gone' = [gone EXCEPT ![p] = r.name # "list" /\ r.id \in deleted]
    /\ known' = [known EXCEPT ![p] = IF r.name = "get"
                                     THEN createdIds \cap {r.id} ELSE {}]
    /\ UNCHANGED <<todos, lock, time, nextId, res, locals, snap, readAt,
                   post, history>>

\* ---- list_todos ----------------------------------------------------------

ListInvoke(p) == Invoke(p, [name |-> "list"], "list_lock")

\* A reader that does not take the guard: it enters while the mutex is held
\* and does not keep others out.
ListLockShared(p) ==
    /\ pc[p] = "list_lock"
    /\ pc' = [pc EXCEPT ![p] = "list_ser"]
    /\ snap' = [snap EXCEPT ![p] = todos]
    /\ UNCHANGED <<todos, lock, time, nextId, budget, req, res, locals, readAt,
                   post, gone, known, history>>

\* line 57
ListLock(p) == Acquire(p, "list_lock", "list_ser")

\* line 58: to_string_pretty(&*todos) writes the next element of the vector.
ListSerialize(p) ==
    /\ pc[p] = "list_ser"
    /\ Len(acc[p]) < Len(todos)
    /\ acc' = [acc EXCEPT ![p] = Append(@, ToJson(todos[Len(@) + 1]))]
    /\ UNCHANGED <<todos, lock, time, nextId, budget, pc, req, res, item, idx,
                   perCall, history>>

\* line 61: every element is written, Ok(CallToolResult::success(..)).
ListReturn(p) ==
    /\ pc[p] = "list_ser"
    /\ Len(acc[p]) >= Len(todos)
    /\ Return(p, Reply(acc[p]), todos)
    /\ UNCHANGED history

\* ---- create_todo ---------------------------------------------------------

\* lines 70-78: the clock and the identifier are read before the lock.
CreateInvoke(p, title, description) ==
    /\ pc[p] = "idle"
    /\ budget > 0
    /\ nextId <= MaxCreates
    /\ ~BeforeEpoch(clock)
    /\ budget' = budget - 1
    /\ req' = [req EXCEPT ![p] = [name |-> "create", title |-> title,
                                  description |-> description]]
    /\ item' = [item EXCEPT ![p] = NewTodoItem(nextId, title, description, clock)]
    /\ nextId' = nextId + 1
    /\ pc' = [pc EXCEPT ![p] = "create_lock"]
    /\ known' = [known EXCEPT ![p] = createdIds]
    /\ readAt' = [readAt EXCEPT ![p] = clock]
    /\ UNCHANGED <<todos, lock, time, res, idx, acc, snap, post, gone,
                   history>>

\* line 70: Utc::now() panics, before an identifier is drawn and before the
\* lock is asked for: the handler ends at once, it has touched nothing and
\* returns nothing.
CreatePanic(p, title, description) ==
    /\ pc[p] = "idle"
    /\ budget > 0
    /\ BeforeEpoch(clock)
    /\ budget' = budget - 1
    /\ req' = [req EXCEPT ![p] = [name |-> "create", title |-> title,
                                  description |-> description]]
    /\ res' = [res EXCEPT ![p] = Panicked]
    /\ pc' = [pc EXCEPT ![p] = "done"]
    /\ known' = [known EXCEPT ![p] = createdIds]
    /\ readAt' = [readAt EXCEPT ![p] = clock]
    /\ snap' = [snap EXCEPT ![p] = todos]
    /\ post' = [post EXCEPT ![p] = todos]
    /\ UNCHANGED <<todos, lock, time, nextId, locals, gone, history>>

\* line 80
CreateLock(p) == Acquire(p, "create_lock", "create_push")

\* line 81: todos.push(todo.clone())
CreatePush(p) ==
    /\ pc[p] = "create_push"
    /\ todos' = Push(todos, item[p])
    /\ pushed' = Append(pushed, item[p].id)
    /\ pc' = [pc EXCEPT ![p] = "create_ser"]
    /\ UNCHANGED <<lock, time, nextId, budget, req, res, locals, perCall,
                   deleted, nCreated, nDeleted, createdIds, untouched>>

\* lines 83-86: to_string_pretty(&todo) and Ok(..)
CreateReturn(p) ==
    /\ pc[p] = "create_ser"
    /\ Return(p, Reply(ToJson(item[p])), todos)
    /\ nCreated' = nCreated + 1
    /\ createdIds' = IF SerdeFails(ToJson(item[p])) THEN createdIds
                     ELSE createdIds \cup {JsonId(ToJson(item[p]))}
    /\ untouched' = IF SerdeFails(ToJson(item[p])) THEN untouched
                    ELSE untouched \cup {ToJson(item[p])}
    /\ UNCHANGED <<deleted, nDeleted, pushed>>

\* ---- update_todo ---------------------------------------------------------

UpdateInvoke(p, id, title, description, completed) ==
    Invoke(p, [name |-> "update", id |-> id, title |-> title,
               description |-> description, completed |-> completed],
           "update_lock")

\* line 95
UpdateLock(p) == Acquire(p, "update_lock", "update_find")

\* line 96: todos.iter_mut().find(|t| t.id == req.id) is Some(todo)
UpdateFind(p) ==
    /\ pc[p] = "update_find"
    /\ Position(todos, req[p].id) # 0
    /\ idx' = [idx EXCEPT ![p] = Position(todos, req[p].id)]
    /\ pc' = [pc EXCEPT ![p] = "update_apply"]
    /\ UNCHANGED <<todos, lock, time, nextId, budget, req, res, item, acc,
                   perCall, history>>

\* lines 116-119: the None arm
UpdateNotFound(p) ==
    /\ pc[p] = "update_find"
    /\ Position(todos, req[p].id) = 0
    /\ Return(p, NotFound(req[p].id), todos)
    /\ UNCHANGED history

\* An update that writes the request into every record of the collection.
UpdateApplyAll(p) ==
    /\ pc[p] = "update_apply"
    /\ idx[p] \in DOMAIN todos
    /\ ~BeforeEpoch(clock)
    /\ todos' = [i \in DOMAIN todos |-> ApplyUpdate(todos[i], req[p], clock)]
    /\ pc' = [pc EXCEPT ![p] = "update_ser"]
    /\ readAt' = [readAt EXCEPT ![p] = clock]
    /\ untouched' = Touch(req[p].id)
    /\ UNCHANGED <<lock, time, nextId, budget, req, res, locals, snap, post,
                   gone, known, deleted, nCreated, nDeleted, createdIds,
                   pushed>>

\* lines 100-109
UpdateApply(p) ==
    /\ pc[p] = "update_apply"
    /\ idx[p] \in DOMAIN todos
    /\ ~BeforeEpoch(clock)
    /\ todos' = [todos EXCEPT ![idx[p]] = ApplyUpdate(@, req[p], clock)]
    /\ pc' = [pc EXCEPT ![p] = "update_ser"]
    /\ readAt' = [readAt EXCEPT ![p] = clock]
    /\ untouched' = Touch(req[p].id)
    /\ UNCHANGED <<lock, time, nextId, budget, req, res, locals, snap, post,
                   gone, known, deleted, nCreated, nDeleted, createdIds,
                   pushed>>

\* lines 100-109 when Utc::now() panics at line 109: title, description and
\* completed have been written, updated_at has not.
UpdatePanic(p) ==
    /\ pc[p] = "update_apply"
    /\ idx[p] \in DOMAIN todos
    /\ BeforeEpoch(clock)
    /\ todos' = [todos EXCEPT ![idx[p]] = WriteFields(@, req[p])]
    /\ pc' = [pc EXCEPT ![p] = "update_unwind"]
    /\ readAt' = [readAt EXCEPT ![p] = clock]
    /\ untouched' = Touch(req[p].id)
    /\ UNCHANGED <<lock, time, nextId, budget, req, res, locals, snap, post,
                   gone, known, deleted, nCreated, nDeleted, createdIds,
                   pushed>>

\* The panic unwinds the handler: the guard is dropped, nothing is returned.
UpdateUnwind(p) ==
    /\ pc[p] = "update_unwind"
    /\ Return(p, Panicked, todos)
    /\ UNCHANGED history

\* lines 111-114
UpdateReturn(p) ==
    /\ pc[p] = "update_ser"
    /\ idx[p] \in DOMAIN todos
    /\ Return(p, Reply(ToJson(todos[idx[p]])), todos)
    /\ UNCHANGED history

\* ---- delete_todo ---------------------------------------------------------

DeleteInvoke(p, id) == Invoke(p, [name |-> "delete", id |-> id], "delete_lock")

\* line 131
DeleteLock(p) == Acquire(p, "delete_lock", "delete_find")

\* line 132: todos.iter().position(|t| t.id == id) is Some(idx)
DeleteFind(p) ==
    /\ pc[p] = "delete_find"
    /\ Position(todos, req[p].id) # 0
    /\ idx' = [idx EXCEPT ![p] = Position(todos, req[p].id)]
    /\ pc' = [pc EXCEPT ![p] = "delete_remove"]
    /\ UNCHANGED <<todos, lock, time, nextId, budget, req, res, item, acc,
                   perCall, history>>

\* lines 141-144: the None arm
DeleteNotFound(p) ==
    /\ pc[p] = "delete_find"
    /\ Position(todos, req[p].id) = 0
    /\ Return(p, NotFound(req[p].id), todos)
    /\ UNCHANGED history

\* lines 136-139: todos.remove(idx) and Ok(..)
DeleteRemove(p) ==
    /\ pc[p] = "delete_remove"
    /\ idx[p] \in DOMAIN todos
    /\ Return(p, Success(DeletedMsg(req[p].id)), RemoveAt(todos, idx[p]))
    /\ deleted' = deleted \cup {req[p].id}
    /\ nDeleted' = nDeleted + 1
    /\ untouched' = Touch(req[p].id)
    /\ UNCHANGED <<nCreated, createdIds, pushed>>

\* ---- get_todo ------------------------------------------------------------

GetInvoke(p, id) == Invoke(p, [name |-> "get", id |-> id], "get_lock")

\* line 156
GetLock(p) == Acquire(p, "get_lock", "get_find")

\* line 157: todos.iter().find(|t| t.id == id) is Some(todo)
GetFind(p) ==
    /\ pc[p] = "get_find"
    /\ Position(todos, req[p].id) # 0
    /\ idx' = [idx EXCEPT ![p] = Position(todos, req[p].id)]
    /\ pc' = [pc EXCEPT ![p] = "get_ser"]
    /\ UNCHANGED <<todos, lock, time, nextId, budget, req, res, item, acc,
                   perCall, history>>

\* lines 166-169: the None arm
GetNotFound(p) ==
    /\ pc[p] = "get_find"
    /\ Position(todos, req[p].id) = 0
    /\ Return(p, NotFound(req[p].id), todos)
    /\ UNCHANGED history

\* lines 161-164
GetReturn(p) ==
    /\ pc[p] = "get_ser"
    /\ idx[p] \in DOMAIN todos
    /\ Return(p, Reply(ToJson(todos[idx[p]])), todos)
    /\ UNCHANGED history

\* ---- complete_todo -------------------------------------------------------

CompleteInvoke(p, id) ==
    Invoke(p, [name |-> "complete", id |-> id], "complete_lock")

\* line 181
CompleteLock(p) == Acquire(p, "complete_lock", "complete_find")

\* line 182: todos.iter_mut().find(|t| t.id == id) is Some(todo)
CompleteFind(p) ==
    /\ pc[p] = "complete_find"
    /\ Position(todos, req[p].id) # 0
    /\ idx' = [idx EXCEPT ![p] = Position(todos, req[p].id)]
    /\ pc' = [pc EXCEPT ![p] = "complete_apply"]
    /\ UNCHANGED <<todos, lock, time, nextId, budget, req, res, item, acc,
                   perCall, history>>

\* lines 194-197: the None arm
CompleteNotFound(p) ==
    /\ pc[p] = "complete_find"
    /\ Position(todos, req[p].id) = 0
    /\ Return(p, NotFound(req[p].id), todos)
    /\ UNCHANGED history

\* lines 186-187
CompleteApply(p) ==
    /\ pc[p] = "complete_apply"
    /\ idx[p] \in DOMAIN todos
    /\ ~BeforeEpoch(clock)
    /\ todos' = [todos EXCEPT ![idx[p]] = ApplyComplete(@, clock)]
    /\ pc' = [pc EXCEPT ![p] = "complete_ser"]
    /\ readAt' = [readAt EXCEPT ![p] = clock]
    /\ untouched' = Touch(req[p].id)
    /\ UNCHANGED <<lock, time, nextId, budget, req, res, locals, snap, post,
                   gone, known, deleted, nCreated, nDeleted, createdIds,
                   pushed>>

\* lines 186-187 when Utc::now() panics at line 187: completed has been
\* written, updated_at has not.
CompletePanic(p) ==
    /\ pc[p] = "complete_apply"
    /\ idx[p] \in DOMAIN todos
    /\ BeforeEpoch(clock)
    /\ todos' = [todos EXCEPT ![idx[p]] = WriteCompleted(@)]
    /\ pc' = [pc EXCEPT ![p] = "complete_unwind"]
    /\ readAt' = [readAt EXCEPT ![p] = clock]
    /\ untouched' = Touch(req[p].id)
    /\ UNCHANGED <<lock, time, nextId, budget, req, res, locals, snap, post,
                   gone, known, deleted, nCreated, nDeleted, createdIds,
                   pushed>>

\* The panic unwinds the handler: the guard is dropped, nothing is returned.
CompleteUnwind(p) ==
    /\ pc[p] = "complete_unwind"
    /\ Return(p, Panicked, todos)
    /\ UNCHANGED history

\* lines 189-192
CompleteReturn(p) ==
    /\ pc[p] = "complete_ser"
    /\ idx[p] \in DOMAIN todos
    /\ Return(p, Reply(ToJson(todos[idx[p]])), todos)
    /\ UNCHANGED history

\* ---- the specifications --------------------------------------------------

\* The ids a caller can name: those handed out so far, and 0, which
\* Uuid::new_v4() never hands out and so names no record.
KnownIds == {0} \cup {i \in Ids : i < nextId}

\* One step of caller p: a call arrives, or its handler takes a step.
Step(p) ==
    \/ Ack(p)
    \/ ListInvoke(p) \/ ListLock(p) \/ ListSerialize(p) \/ ListReturn(p)
    \/ \E t \in CreateTitles, d \in OptOf(CreateDescs) : CreateInvoke(p, t, d)
    \/ \E t \in CreateTitles, d \in OptOf(CreateDescs) : CreatePanic(p, t, d)
    \/ CreateLock(p) \/ CreatePush(p) \/ CreateReturn(p)
    \/ \E id \in KnownIds, t \in OptOf(UpdateTitles), d \in OptOf(UpdateDescs),
          c \in OptOf(UpdateFlags) : UpdateInvoke(p, id, t, d, c)
    \/ UpdateLock(p) \/ UpdateFind(p) \/ UpdateNotFound(p)
    \/ UpdateApply(p) \/ UpdateReturn(p)
    \/ UpdatePanic(p) \/ UpdateUnwind(p)
    \/ \E id \in KnownIds : DeleteInvoke(p, id)
    \/ DeleteLock(p) \/ DeleteFind(p) \/ DeleteNotFound(p) \/ DeleteRemove(p)
    \/ \E id \in KnownIds : GetInvoke(p, id)
    \/ GetLock(p) \/ GetFind(p) \/ GetNotFound(p) \/ GetReturn(p)
    \/ \E id \in KnownIds : CompleteInvoke(p, id)
    \/ CompleteLock(p) \/ CompleteFind(p) \/ CompleteNotFound(p)
    \/ CompleteApply(p) \/ CompleteReturn(p)
    \/ CompletePanic(p) \/ CompleteUnwind(p)

\* The callers run concurrently.
Next == Tick \/ SetBack \/ \E p \in Procs : Step(p)

Spec == Init /\ [][Next]_vars

\* One caller makes its calls one after the other, and makes more of them.
InitSeq == Start(MaxSeqCalls)

NextSeq == Tick \/ SetBack \/ Step(1)

SpecSeq == InitSeq /\ [][NextSeq]_vars

\* The handler of caller p completes its lock().await.
LockStep(p) ==
    \/ ListLock(p) \/ CreateLock(p) \/ UpdateLock(p) \/ DeleteLock(p)
    \/ GetLock(p) \/ CompleteLock(p)

\* The handler of caller p takes a step that waits for nothing.
RunStep(p) ==
    \/ ListSerialize(p) \/ ListReturn(p)
    \/ CreatePush(p) \/ CreateReturn(p)
    \/ UpdateFind(p) \/ UpdateNotFound(p) \/ UpdateApply(p) \/ UpdateReturn(p)
    \/ UpdatePanic(p) \/ UpdateUnwind(p)
    \/ DeleteFind(p) \/ DeleteNotFound(p) \/ DeleteRemove(p)
    \/ GetFind(p) \/ GetNotFound(p) \/ GetReturn(p)
    \/ CompleteFind(p) \/ CompleteNotFound(p) \/ CompleteApply(p)
    \/ CompleteReturn(p) \/ CompletePanic(p) \/ CompleteUnwind(p)

\* The callers run concurrently under the scheduling of the runtime: a
\* handler that can run is run (there is no await between lock().await and
\* the return), and a handler that waits for the mutex gets it when the
\* mutex is released again and again (tokio's Mutex serves its waiters in
\* the order in which they asked).  Nothing makes the callers call, and
\* nothing makes time pass.
InitFair == Start(MaxFairCalls)

SpecFair ==
    /\ InitFair
    /\ [][Next]_vars
    /\ \A p \in Procs : WF_vars(RunStep(p)) /\ SF_vars(LockStep(p))

\* The clock has behaved as a monotonic clock so far.
Monotonic == setBacks = 0

\* ---- the handlers executed alone -----------------------------------------

\* The positions at which a handler holds the guard.
CSLabels ==
    {"list_ser", "create_push", "create_ser", "update_find", "update_apply",
     "update_ser", "update_unwind", "delete_find", "delete_remove",
     "get_find", "get_ser", "complete_find", "complete_apply",
     "complete_ser", "complete_unwind"}

InCS(p) == pc[p] \in CSLabels

Quiescent == \A p \in Procs : pc[p] \in {"idle", "done"}

HasId(r) == r.name \in {"update", "delete", "get", "complete"}

\* The collection that the call of caller p leaves when its handler runs
\* alone on the collection snap[p] and reads the clock as `now`.
SeqTodos(p, now) ==
    LET s == snap[p]
        r == req[p]
        i == IF HasId(r) THEN Position(s, r.id) ELSE 0
    IN  CASE r.name = "create" /\ ~BeforeEpoch(now) -> Push(s, item[p])
          [] r.name = "update" /\ i # 0 /\ ~BeforeEpoch(now) ->
                [s EXCEPT ![i] = ApplyUpdate(@, r, now)]
          [] r.name = "update" /\ i # 0 /\ BeforeEpoch(now) ->
                [s EXCEPT ![i] = WriteFields(@, r)]
          [] r.name = "complete" /\ i # 0 /\ ~BeforeEpoch(now) ->
                [s EXCEPT ![i] = ApplyComplete(@, now)]
          [] r.name = "complete" /\ i # 0 /\ BeforeEpoch(now) ->
                [s EXCEPT ![i] = WriteCompleted(@)]
          [] r.name = "delete" /\ i # 0    -> RemoveAt(s, i)
          [] OTHER                         -> s

\* The result that call returns, or the panic that ends it.
SeqResult(p, now) ==
    LET s == snap[p]
        r == req[p]
        i == IF HasId(r) THEN Position(s, r.id) ELSE 0
    IN  CASE r.name = "list"   -> Success([k \in 1..Len(s) |-> ToJson(s[k])])
          [] r.name = "create" /\ BeforeEpoch(now) -> Panicked
          [] r.name = "create" -> Success(ToJson(item[p]))
          [] r.name \in {"update", "complete"} /\ i # 0 /\ BeforeEpoch(now) ->
                Panicked
          [] HasId(r) /\ i = 0 -> NotFound(r.id)
          [] r.name = "delete" /\ i # 0 -> Success(DeletedMsg(r.id))
          [] r.name = "get" /\ i # 0    -> Success(ToJson(s[i]))
          [] OTHER -> Success(ToJson(SeqTodos(p, now)[i]))

\* ---- claims --------------------------------------------------------------

\* C1: in every reachable state no two records of the collection have the
\* same id.
C1_UniqueIds ==
    \A i, j \in DOMAIN todos : i # j => todos[i].id # todos[j].id

\* Two creates overlapped (the record whose id was drawn second was pushed
\* first) and both records are in the collection.
C1_Witness ==
    /\ Len(todos) = 2
    /\ pushed = <<2, 1>>
    /\ todos[1].id = 2 /\ todos[2].id = 1

\* C2: every create call succeeds, the records the create calls returned
\* carry pairwise distinct ids (as many ids as calls), and once every call
\* has returned the collection, and the sequence a list call returns, has as
\* many elements as creates returned minus deletes that removed a record.
C2_CreatesAndLength ==
    /\ \A p \in Procs :
          pc[p] = "done" /\ req[p].name = "create"
            => res[p].tag = "Ok" /\ JsonId(res[p].content) \in createdIds
    /\ \A p, q \in Procs :
          (p # q /\ pc[p] = "done" /\ pc[q] = "done"
             /\ req[p].name = "create" /\ req[q].name = "create")
            => JsonId(res[p].content) # JsonId(res[q].content)
    /\ Cardinality(createdIds) = nCreated
    /\ Quiescent => Len(todos) = nCreated - nDeleted
    /\ \A p \in Procs :
          (Quiescent /\ pc[p] = "done" /\ req[p].name = "list" /\ post[p] = todos)
            => /\ res[p].tag = "Ok"
               /\ Len(res[p].content) = nCreated - nDeleted

\* C3: at most one call is inside the section that reads or writes the
\* collection, and a call inside it holds the one lock, whatever its kind
\* (list and get included).
C3_MutualExclusion ==
    /\ \A p \in Procs : InCS(p) => lock = p
    /\ \A p, q \in Procs : p # q => ~(InCS(p) /\ InCS(q))
    /\ lock # 0 => InCS(lock)

\* list_todos is serializing under the lock and a get_todo call is kept
\* waiting at its lock().await.
C3_Witness ==
    \E p, q \in Procs :
        /\ p # q
        /\ pc[p] = "list_ser" /\ Len(todos) > 0
        /\ pc[q] = "get_lock"
        /\ ~ENABLED GetLock(q)

\* C4: every call takes effect atomically at the moment it acquires the
\* lock: while it is in its section the collection is the one it found or
\* the one it leaves, what list has written so far is a prefix of the
\* collection it found, and the result it returns and the collection it
\* leaves are those of its handler run alone on the collection it found.
C4_Atomic ==
    \A p \in Procs :
        /\ InCS(p) =>
              (todos = snap[p] \/ todos = SeqTodos(p, readAt[p]))
        /\ pc[p] = "list_ser" =>
              /\ todos = snap[p]
              /\ Len(acc[p]) <= Len(snap[p])
              /\ \A k \in 1..Len(acc[p]) : acc[p][k] = ToJson(snap[p][k])
        /\ pc[p] = "done" =>
              /\ res[p] = SeqResult(p, readAt[p])
              /\ post[p] = SeqTodos(p, readAt[p])

\* list_todos has written the record and has not returned yet, while an
\* update that changes the title of that record waits for the lock.
C4_Witness ==
    \E p, q \in Procs :
        /\ p # q
        /\ pc[p] = "list_ser" /\ Len(todos) = 1 /\ Len(acc[p]) = 1
        /\ pc[q] = "update_lock" /\ req[q].id = todos[1].id
        /\ IsSome(req[q].title)

\* C5: a successful update changes the record with the given id and nothing
\* else: each of title, description and completed that the request carries
\* replaces the stored value, each that it does not carry keeps it,
\* updated_at becomes the time read during the call, id and created_at stay,
\* and the other records and the length of the collection stay.
C5_UpdateMerge ==
    \A p \in Procs :
        (pc[p] = "done" /\ req[p].name = "update" /\ res[p].tag = "Ok") =>
            LET r   == req[p]
                i   == Position(snap[p], r.id)
                old == snap[p][i]
                new == post[p][i]
            IN  /\ i # 0
                /\ Len(post[p]) = Len(snap[p])
                /\ \A k \in DOMAIN snap[p] : k # i => post[p][k] = snap[p][k]
                /\ new.id = old.id
                /\ new.created_at = old.created_at
                /\ new.title = IF r.title # None THEN r.title[1] ELSE old.title
                /\ new.description =
                      IF r.description # None THEN r.description
                      ELSE old.description
                /\ new.completed =
                      IF r.completed # None THEN r.completed[1] ELSE old.completed
                /\ new.updated_at = readAt[p]
                /\ res[p].content = ToJson(new)

\* An update that carries none of the three fields has succeeded on a record
\* that has a description, and has refreshed updated_at.
C5_Witness ==
    \E p \in Procs :
        /\ pc[p] = "done" /\ req[p].name = "update" /\ res[p].tag = "Ok"
        /\ req[p].title = None /\ req[p].description = None
        /\ req[p].completed = None
        /\ snap[p][Position(snap[p], req[p].id)].description # None
        /\ post[p] # snap[p]

\* C6: update, delete, get and complete called with an id that no record of
\* the collection has return InvalidParams with that id as context, and the
\* collection is never changed by such a call.
C6_NotFound ==
    \A p \in Procs :
        (HasId(req[p]) /\ Position(snap[p], req[p].id) = 0) =>
            /\ InCS(p) => todos = snap[p]
            /\ pc[p] = "done" =>
                  /\ res[p].tag = "InvalidParams"
                  /\ res[p].data = <<"id", req[p].id>>
                  /\ post[p] = snap[p]

\* An update that carries a title found no record with its id in a
\* collection that is not empty, and has returned.
C6_Witness ==
    \E p \in Procs :
        /\ pc[p] = "done" /\ req[p].name = "update"
        /\ req[p].id # 0 /\ IsSome(req[p].title)
        /\ Len(snap[p]) > 0
        /\ res[p].tag = "InvalidParams"

\* C7: once delete(id) has succeeded no record of the collection has that id
\* again, and every get, update, complete and delete of that id invoked
\* afterwards fails with NotFound.
C7_DeletedStaysGone ==
    /\ \A i \in DOMAIN todos : todos[i].id \notin deleted
    /\ \A p \in Procs :
          (pc[p] = "done" /\ gone[p]) => res[p] = NotFound(req[p].id)

\* A record was created and deleted, another record was created, and a get
\* of the deleted id has failed.
C7_Witness ==
    /\ pc[1] = "done" /\ req[1].name = "get" /\ gone[1]
    /\ Len(todos) > 0
    /\ res[1].tag = "InvalidParams"

\* The live ids in the order in which they were pushed.
LiveIds == SelectSeq(pushed, LAMBDA id : id \notin deleted)

\* C8: the collection holds the records that were pushed and not deleted, in
\* the order in which they were pushed, and list returns the collection in
\* that order.
C8_InsertionOrder ==
    /\ Len(todos) = Len(LiveIds)
    /\ \A i \in DOMAIN todos : todos[i].id = LiveIds[i]
    /\ \A p \in Procs :
          (pc[p] = "done" /\ req[p].name = "list") =>
              /\ res[p].tag = "Ok"
              /\ Len(res[p].content) = Len(post[p])
              /\ \A k \in DOMAIN post[p] : res[p].content[k] = ToJson(post[p][k])

\* A, B and C were created in that order, B was deleted, and list has
\* returned [A, C].
C8_Witness ==
    /\ pc[1] = "done" /\ req[1].name = "list"
    /\ pushed = <<1, 2, 3>>
    /\ deleted = {2}
    /\ Len(res[1].content) = 2
    /\ JsonId(res[1].content[1]) = 1
    /\ JsonId(res[1].content[2]) = 3

\* C9: every record of the collection has updated_at >= created_at,
\* whatever the calls and however they interleave.
C9_UpdatedAfterCreated ==
    \A i \in DOMAIN todos : todos[i].updated_at >= todos[i].created_at

\* An update that carries completed = true and nothing else has succeeded.
CompletedOnly(p) ==
    /\ pc[p] = "done" /\ req[p].name = "update" /\ res[p].tag = "Ok"
    /\ req[p].title = None /\ req[p].description = None
    /\ req[p].completed = Some(TRUE)

\* C10 as stated: while the clock behaves as a monotonic clock, such an
\* update leaves title and description unchanged and sets updated_at
\* strictly greater than it was.
C10_StrictlyGreater ==
    \A p \in Procs :
        (Monotonic /\ CompletedOnly(p)) =>
            LET i == Position(snap[p], req[p].id)
            IN  /\ post[p][i].title = snap[p][i].title
                /\ post[p][i].description = snap[p][i].description
                /\ post[p][i].updated_at > snap[p][i].updated_at

\* C10 as amended: while the clock behaves as a monotonic clock, such an
\* update leaves title and description unchanged and sets updated_at to a
\* value that is not less than it was.
C10_NotLess ==
    \A p \in Procs :
        (Monotonic /\ CompletedOnly(p)) =>
            LET i == Position(snap[p], req[p].id)
            IN  /\ post[p][i].title = snap[p][i].title
                /\ post[p][i].description = snap[p][i].description
                /\ post[p][i].completed
                /\ post[p][i].updated_at >= snap[p][i].updated_at

\* Such an update has succeeded on a record that has a description, after
\* the clock advanced.
C10_Witness ==
    \E p \in Procs :
        /\ Monotonic /\ CompletedOnly(p)
        /\ LET i == Position(snap[p], req[p].id)
           IN  /\ snap[p][i].description # None
               /\ post[p][i].updated_at > snap[p][i].updated_at

\* C14: a list call and a create call always end with a success, and the
\* success of create carries the record it has just put into the collection.
C14_ListCreateSucceed ==
    \A p \in Procs :
        /\ (pc[p] = "done" /\ req[p].name = "list") => res[p].tag = "Ok"
        /\ (pc[p] = "done" /\ req[p].name = "create") =>
              /\ res[p].tag = "Ok"
              /\ res[p].content = ToJson(item[p])
              /\ Len(post[p]) = Len(snap[p]) + 1
              /\ ToJson(post[p][Len(post[p])]) = res[p].content

\* The positions at which a handler waits for the lock.
LockLabels ==
    {"list_lock", "create_lock", "update_lock", "delete_lock", "get_lock",
     "complete_lock"}

\* C16: a call that has returned, with a success or with a failure, does
\* not hold the lock, and the lock is free whenever no call is inside its
\* exclusive section.
C16_LockReleased ==
    /\ \A p \in Procs : pc[p] \in {"idle", "done"} \cup LockLabels => lock # p
    /\ (\A p \in Procs : ~InCS(p)) => lock = 0

\* One call has returned NotFound, another has returned a success, and the
\* lock is free.
C16_Witness ==
    \E p, q \in Procs :
        /\ pc[p] = "done" /\ res[p].tag = "InvalidParams"
        /\ pc[q] = "done" /\ res[q].tag = "Ok"
        /\ lock = 0

\* The ids of the records of the sequence s.
IdsOf(s) == {s[i].id : i \in DOMAIN s}

\* C11: the record that create_todo, called with a title and no
\* description, returns has
\* that title and an id that no record inserted before carries,
\* completed = false, description = None and created_at = updated_at; a
\* get_todo invoked with that id after create_todo returned it, with no
\* update, complete or delete applied to the record since, succeeds with a
\* record equal to the returned one in every field.
C11_CreateThenGet ==
    \A p \in Procs :
        /\ (pc[p] = "done" /\ req[p].name = "create" /\ res[p].tag = "Ok") =>
              /\ JsonId(res[p].content) \notin IdsOf(snap[p])
              /\ Cardinality({i \in DOMAIN pushed :
                                  pushed[i] = JsonId(res[p].content)}) = 1
              /\ JsonGet(res[p].content, "title") = req[p].title
              /\ JsonGet(res[p].content, "completed") = FALSE
              /\ JsonGet(res[p].content, "description") = req[p].description
              /\ JsonGet(res[p].content, "created_at")
                    = JsonGet(res[p].content, "updated_at")
        /\ (pc[p] = "done" /\ req[p].name = "get" /\ req[p].id \in known[p]) =>
              \A j \in untouched :
                  JsonId(j) = req[p].id => res[p] = Success(j)

\* create_todo has returned a record made without a description, and a
\* get_todo invoked after that with its id has returned while the record
\* was as created.
C11_Witness ==
    \E p, q \in Procs :
        /\ pc[p] = "done" /\ req[p].name = "create"
        /\ req[p].description = None /\ res[p].tag = "Ok"
        /\ pc[q] = "done" /\ req[q].name = "get"
        /\ req[q].id = JsonId(res[p].content) /\ req[q].id \in known[q]
        /\ res[p].content \in untouched
        /\ res[q].tag = "Ok"

\* The fields of an update request that carries completed = true only.
OnlyCompleted == [title |-> None, description |-> None,
                  completed |-> Some(TRUE)]

\* A complete call has succeeded.
Completed(p) ==
    pc[p] = "done" /\ req[p].name = "complete" /\ res[p].tag = "Ok"

\* An update call that carries a title and no completed field has succeeded.
Retitled(p) ==
    /\ pc[p] = "done" /\ req[p].name = "update" /\ res[p].tag = "Ok"
    /\ IsSome(req[p].title) /\ req[p].completed = None

\* C12: a successful complete sets completed = true on the record with the
\* given id, whether or not it was true before, sets its updated_at to the
\* time of the call and leaves title and description as they were; the
\* collection and the result are the ones an update with only
\* completed = true produces, and conversely; a successful update that
\* carries a title and no completed field, applied to a completed record,
\* changes the title and leaves completed = true.
C12_CompleteIsUpdate ==
    \A p \in Procs :
        LET i == Position(snap[p], req[p].id)
        IN  /\ Completed(p) =>
                  /\ i # 0
                  /\ post[p][i].completed = TRUE
                  /\ post[p][i].title = snap[p][i].title
                  /\ post[p][i].description = snap[p][i].description
                  /\ post[p][i].updated_at = readAt[p]
                  /\ post[p] = [snap[p] EXCEPT ![i] =
                        ApplyUpdate(@, OnlyCompleted, post[p][i].updated_at)]
                  /\ res[p] = Success(ToJson(post[p][i]))
            /\ CompletedOnly(p) =>
                  /\ i # 0
                  /\ post[p] = [snap[p] EXCEPT ![i] =
                        ApplyComplete(@, post[p][i].updated_at)]
                  /\ res[p] = Success(ToJson(post[p][i]))
            /\ (Retitled(p) /\ i # 0 /\ snap[p][i].completed) =>
                  /\ post[p][i].title = Unwrap(req[p].title)
                  /\ post[p][i].completed = TRUE

\* A complete call has succeeded on a record, and an update with a new title
\* and no completed field has then succeeded on the record it left.
C12_Witness ==
    \E p, q \in Procs :
        /\ Completed(p) /\ Retitled(q) /\ req[q].id = req[p].id
        /\ snap[q] = post[p]
        /\ post[q][Position(snap[q], req[q].id)].title
              # snap[q][Position(snap[q], req[q].id)].title

\* A step leaves every record in place with its id and its created_at,
\* unless it is the step of a delete call that removes the record with the
\* given id and nothing else; and a record that a step changes is the one
\* whose id was given to the update or complete call that holds the lock.
FrameStep ==
    /\ IF Len(todos') < Len(todos)
       THEN \E p \in Procs : \E k \in DOMAIN todos :
                /\ lock = p /\ req[p].name = "delete"
                /\ todos[k].id = req[p].id
                /\ todos' = SubSeq(todos, 1, k - 1)
                               \o SubSeq(todos, k + 1, Len(todos))
       ELSE \A i \in DOMAIN todos :
                /\ todos'[i].id = todos[i].id
                /\ todos'[i].created_at = todos[i].created_at
    /\ \A i \in DOMAIN todos :
          (Len(todos') = Len(todos) /\ todos'[i] # todos[i]) =>
              \E p \in Procs :
                  /\ lock = p /\ req[p].name \in {"update", "complete"}
                  /\ todos[i].id = req[p].id

\* C13: from its insertion to its removal a record keeps its id and its
\* created_at, whatever calls are executed, and update and complete change
\* no record other than the one whose id they were given.
C13_Frame == [][FrameStep]_vars

\* An update has succeeded on one of two records: that record has the id and
\* the created_at it had and a new updated_at, and the other record is as
\* it was.
C13_Witness ==
    \E p \in Procs :
        /\ pc[p] = "done" /\ req[p].name = "update" /\ res[p].tag = "Ok"
        /\ Len(snap[p]) = 2 /\ Len(post[p]) = 2
        /\ \E i, k \in {1, 2} :
              /\ i # k
              /\ snap[p][i].id = req[p].id
              /\ post[p][i].id = snap[p][i].id
              /\ post[p][i].created_at = snap[p][i].created_at
              /\ post[p][i].updated_at # snap[p][i].updated_at
              /\ post[p][k] = snap[p][k]

\* A step keeps a present description present in every record that it
\* leaves in the collection; the step of update_todo that writes the record
\* stores the description of the request when there is one and leaves the
\* stored one as it was when there is none, and the step of complete_todo
\* that writes the record leaves the stored description as it was.
DescriptionStep ==
    /\ \A i \in DOMAIN todos : \A k \in DOMAIN todos' :
          (todos'[k].id = todos[i].id /\ IsSome(todos[i].description)) =>
              IsSome(todos'[k].description)
    /\ \A p \in Procs :
          /\ (pc[p] = "update_apply" /\ pc'[p] = "update_ser") =>
                todos'[idx[p]].description =
                    IF IsSome(req[p].description) THEN req[p].description
                    ELSE todos[idx[p]].description
          /\ (pc[p] = "complete_apply" /\ pc'[p] = "complete_ser") =>
                todos'[idx[p]].description = todos[idx[p]].description

\* C17: a description that is present, from create or from an update, stays
\* present until the record is deleted, whatever update and complete calls
\* are made; an update with a description replaces it, and an update without
\* one leaves the stored description exactly as it was.
C17_NeverCleared == [][DescriptionStep]_vars

\* An update has replaced the description of a record, and a following
\* update without a description has left the new description in place.
C17_Witness ==
    \E p, q \in Procs :
        LET i == Position(snap[p], req[p].id)
            k == Position(snap[q], req[q].id)
        IN  /\ pc[p] = "done" /\ req[p].name = "update" /\ res[p].tag = "Ok"
            /\ pc[q] = "done" /\ req[q].name = "update" /\ res[q].tag = "Ok"
            /\ req[q].id = req[p].id
            /\ IsSome(snap[p][i].description)
            /\ IsSome(req[p].description)
            /\ req[p].description # snap[p][i].description
            /\ post[p][i].description = req[p].description
            /\ snap[q] = post[p]
            /\ req[q].description = None
            /\ post[q][k].description = req[p].description

\* C19 as stated: while the clock behaves as a monotonic clock, the records
\* of the collection are in non-decreasing order of created_at.
C19_CreatedAtOrder ==
    Monotonic =>
        \A i, k \in DOMAIN todos :
            i < k => todos[i].created_at <= todos[k].created_at

\* C19, amended: while the clock behaves as a monotonic clock, when a create
\* call returns, its record stands after every record whose create call had
\* returned before it was invoked, and its created_at is not earlier than
\* theirs.
C19_OrderOfSequentialCreates ==
    \A p \in Procs :
        (Monotonic /\ pc[p] = "done" /\ req[p].name = "create") =>
            \A i \in DOMAIN post[p] :
                post[p][i].id \in known[p] =>
                    /\ i < Position(post[p], item[p].id)
                    /\ post[p][i].created_at <= item[p].created_at

\* A create call invoked after another one had returned, and after the
\* clock had advanced, has returned: the collection holds both records.
C19_Witness ==
    \E p \in Procs :
        /\ Monotonic
        /\ pc[p] = "done" /\ req[p].name = "create" /\ res[p].tag = "Ok"
        /\ \E i \in DOMAIN post[p] :
              /\ post[p][i].id \in known[p]
              /\ post[p][i].created_at < item[p].created_at

\* A call is in flight: it has been invoked and has not returned.
InFlight(p) == pc[p] \notin {"idle", "done"}

\* The handler of caller p has returned a Result: a success or an error.
Returned(p) ==
    pc[p] = "done" /\ res[p].tag \in {"Ok", "InvalidParams", "InternalError"}

\* C15: under fair scheduling every call that has been invoked acquires the
\* lock and then returns a result, and in no reachable state are the calls
\* in flight all unable to take a step.
C15_Progress ==
    /\ [](  (\E p \in Procs : InFlight(p)) =>
            (\E p \in Procs : ENABLED (LockStep(p) \/ RunStep(p))) )
    /\ \A p \in Procs : (pc[p] \in LockLabels) ~> InCS(p)
    /\ \A p \in Procs : InFlight(p) ~> Returned(p)

====
